---- MODULE Spec2Model ----
(***************************************************************************)
(* LuaLexer (src/scripting.py): the rule tables of the Lua lexer, the      *)
(* mode-stack scanner that drives them, and the builtin classifier pass    *)
(* LuaLexer.get_tokens_unprocessed.                                        *)
(*                                                                         *)
(* A text is a sequence of one-character strings.  Offsets are 0-based as  *)
(* in the code: the character at offset p of text t is t[p + 1].           *)
(***************************************************************************)
EXTENDS Integers, Sequences, FiniteSets, TLC

(***************************************************************************)
(* Character classes of the regular expressions (ASCII part).              *)
(***************************************************************************)
\* \d
Digits == {"0", "1", "2", "3", "4", "5", "6", "7", "8", "9"}

\* [a-f] under (?i), [a-fA-F]
HexLetters == {"a", "b", "c", "d", "e", "f", "A", "B", "C", "D", "E", "F"}

\* [A-Za-z_], which is [^\W\d] on ASCII text
NameStart ==
    {"a", "b", "c", "d", "e", "f", "g", "h", "i", "j", "k", "l", "m",
     "n", "o", "p", "q", "r", "s", "t", "u", "v", "w", "x", "y", "z",
     "A", "B", "C", "D", "E", "F", "G", "H", "I", "J", "K", "L", "M",
     "N", "O", "P", "Q", "R", "S", "T", "U", "V", "W", "X", "Y", "Z", "_"}

\* \w
WordChars == NameStart \cup Digits

\* \s
Spaces == {" ", "\t", "\n", "\r", "\f"}

\* `!` taken for an operator character
OperatorChars_bang ==
    {"=", "<", ">", "|", "~", "&", "+", "-", "*", "/", "%", "#", "^", "!"}

\* [=<>|~&+\-*/%#^]
OperatorChars == {"=", "<", ">", "|", "~", "&", "+", "-", "*", "/", "%", "#", "^"}

\* [\[\]{}().,:;]
PunctuationChars == {"[", "]", "{", "}", "(", ")", ".", ",", ":", ";"}

\* [abfnrtv\\"\']
EscapeLetters == {"a", "b", "f", "n", "r", "t", "v", "\\", "\"", "'"}

\* the result of a pattern that does not match at the offset
NoMatch == -1

(***************************************************************************)
(* Primitives of the anchored matchers.                                    *)
(***************************************************************************)
\* the character at offset p, "" at and after the end of the text
At(t, p) == IF p >= 0 /\ p < Len(t) THEN t[p + 1] ELSE ""

\* the text between offsets p (included) and q (excluded)
Slice(t, p, q) == SubSeq(t, p + 1, q)

\* the literal w matches at offset p
StartsWith(t, p, w) == p + Len(w) <= Len(t) /\ Slice(t, p, p + Len(w)) = w

\* C* at offset p: the length of the longest run of characters of class C
RECURSIVE RunLen(_, _, _)
RunLen(t, p, C) == IF At(t, p) \in C THEN 1 + RunLen(t, p + 1, C) ELSE 0

\* . without (?s): any character but the line feed
RECURSIVE RunToEOL(_, _)
RunToEOL(t, p) == IF p < Len(t) /\ t[p + 1] # "\n" THEN 1 + RunToEOL(t, p + 1) ELSE 0

\* \b at offset p
WordBoundary(t, p) == (At(t, p - 1) \in WordChars) # (At(t, p) \in WordChars)

Min(a, b) == IF a < b THEN a ELSE b

\* the least element of a non-empty set of offsets
MinOf(S) == CHOOSE x \in S : \A y \in S : x <= y

\* [^...]+ at offset p: the longest run of characters outside class C
RECURSIVE RunLenNot(_, _, _)
RunLenNot(t, p, C) ==
    IF p < Len(t) /\ t[p + 1] \notin C THEN 1 + RunLenNot(t, p + 1, C) ELSE 0

(***************************************************************************)
(* Words of the rule tables, as texts.                                     *)
(***************************************************************************)
OperatorWords ==
    {<<"a", "n", "d">>, <<"o", "r">>, <<"n", "o", "t">>}

ReservedWords ==
    {<<"b", "r", "e", "a", "k">>, <<"d", "o">>, <<"e", "l", "s", "e">>,
     <<"e", "l", "s", "e", "i", "f">>, <<"e", "n", "d">>, <<"f", "o", "r">>,
     <<"i", "f">>, <<"i", "n">>, <<"r", "e", "p", "e", "a", "t">>,
     <<"r", "e", "t", "u", "r", "n">>, <<"t", "h", "e", "n">>,
     <<"u", "n", "t", "i", "l">>, <<"w", "h", "i", "l", "e">>}

GotoWord == {<<"g", "o", "t", "o">>}

LocalWord == {<<"l", "o", "c", "a", "l">>}

ConstantWords ==
    {<<"t", "r", "u", "e">>, <<"f", "a", "l", "s", "e">>, <<"n", "i", "l">>}

FunctionWord == {<<"f", "u", "n", "c", "t", "i", "o", "n">>}

(***************************************************************************)
(* The builtin registry MODULES that the lexer imports: module name ->     *)
(* function names.  The catalogue itself lives outside the lexer; these    *)
(* modules and names are an excerpt of it.                                 *)
(***************************************************************************)
MODULES ==
    [basic  |-> {<<"p", "r", "i", "n", "t">>, <<"_", "G">>},
     string |-> {<<"s", "t", "r", "i", "n", "g", ".", "l", "e", "n">>,
                 <<"s", "t", "r", "i", "n", "g", ".", "r", "e", "p">>},
     table  |-> {<<"t", "a", "b", "l", "e", ".", "s", "o", "r", "t">>},
     os     |-> {<<"o", "s", ".", "t", "i", "m", "e">>}]

\* def all_lua_builtins(): every function name of every module
all_lua_builtins == UNION {MODULES[mod] : mod \in DOMAIN MODULES}

(***************************************************************************)
(* The patterns.  Each gives the number of characters its regular          *)
(* expression consumes when matched at offset p of t, or NoMatch.          *)
(***************************************************************************)
\* a long bracket that any closing bracket ends, whatever its level
LongBracketEnds_anylevel(t, p) ==
    IF At(t, p) # "[" THEN {}
    ELSE LET level == RunLen(t, p + 1, {"="})
         IN IF At(t, p + 1 + level) # "[" THEN {}
            ELSE {c + RunLen(t, c + 1, {"="}) + 2 : c \in
                    {c \in (p + 2 + level)..(Len(t) - 1) :
                        /\ At(t, c) = "]"
                        /\ At(t, c + 1 + RunLen(t, c + 1, {"="})) = "]"}}

\* \[(=*)\[[\w\W]*?\]\1\] : every offset at which a long bracket opened at p
\* can end.  The level is the whole run of = after the first [ (with fewer,
\* the next character is = and not [); the body may end at each ] followed
\* by exactly level = and a ].
LongBracketEnds(t, p) ==
    IF At(t, p) # "[" THEN {}
    ELSE LET level == RunLen(t, p + 1, {"="})
         IN IF At(t, p + 1 + level) # "[" THEN {}
            ELSE {q + level + 2 : q \in
                    {c \in (p + 2 + level)..(Len(t) - 1) :
                        /\ At(t, c) = "]"
                        /\ RunLen(t, c + 1, {"="}) >= level
                        /\ At(t, c + 1 + level) = "]"}}

\* a long bracket without its closing bracket runs to the end of the input
LongBracket_open(t, p) ==
    IF LongBracketEnds(t, p) # {} THEN MinOf(LongBracketEnds(t, p)) - p
    ELSE IF At(t, p) = "[" /\ At(t, p + 1 + RunLen(t, p + 1, {"="})) = "["
         THEN Len(t) - p
         ELSE NoMatch

\* the lazy body [\w\W]*? stops at the first closing bracket of the level
LongBracket(t, p) ==
    IF LongBracketEnds(t, p) = {} THEN NoMatch ELSE MinOf(LongBracketEnds(t, p)) - p

\* _comment_multiline = (?:--\[(?P<level>=*)\[[\w\W]*?\](?P=level)\])
_comment_multiline(t, p) ==
    IF StartsWith(t, p, <<"-", "-">>) /\ LongBracket(t, p + 2) # NoMatch
    THEN 2 + LongBracket(t, p + 2)
    ELSE NoMatch

\* _comment_single = (?:--.*$) under re.MULTILINE
_comment_single(t, p) ==
    IF StartsWith(t, p, <<"-", "-">>) THEN 2 + RunToEOL(t, p + 2) ELSE NoMatch

\* \s* in place of \s+
_space_star(t, p) == RunLen(t, p, Spaces)

\* _space = (?:\s+)
_space(t, p) == IF At(t, p) \in Spaces THEN RunLen(t, p, Spaces) ELSE NoMatch

\* _name = (?:[^\W\d]\w*), and [A-Za-z_]\w*
_name(t, p) ==
    IF At(t, p) \in NameStart THEN 1 + RunLen(t, p + 1, WordChars) ELSE NoMatch

\* _s = (?:_comment_multiline|_comment_single|_space): the offsets one _s
\* started at p can end at, over all the ways the expression can match (in a
\* lookahead the engine backtracks into the comment body).  A run of spaces
\* counts as a whole: inside the run the next character is a space again.
SEnds(t, p) ==
    (IF StartsWith(t, p, <<"-", "-">>)
     THEN LongBracketEnds(t, p + 2) \cup {p + _comment_single(t, p)}
     ELSE {})
    \cup (IF At(t, p) \in Spaces THEN {p + _space(t, p)} ELSE {})

\* _s* : the offsets reachable from p over any number of _s
RECURSIVE SkipEnds(_, _)
SkipEnds(t, p) == {p} \cup UNION {SkipEnds(t, q) : q \in SEnds(t, p)}

\* (?=_s*[...]) at offset p: after some run of comments and spaces comes a
\* character of class C
Lookahead(t, p, C) == \E q \in SkipEnds(t, p) : At(t, q) \in C

\* name(?=_s*[...]) ; \w* cannot give characters back: the character after a
\* shorter name is a word character, which neither _s nor C starts with
NameBefore(t, p, C) ==
    IF _name(t, p) # NoMatch /\ Lookahead(t, p + _name(t, p), C)
    THEN _name(t, p)
    ELSE NoMatch

\* words(W, suffix=r"\b"): one of the words, ending at a word boundary (no
\* word of the tables is another word followed by a non-word character, so
\* at most one word matches)
Words(t, p, W) ==
    LET hits == {Len(w) : w \in {v \in W : StartsWith(t, p, v)
                                           /\ WordBoundary(t, p + Len(v))}}
    IN IF hits = {} THEN NoMatch ELSE MinOf(hits)

\* the optional exponent group (e[+-]?\d+)? with exponent letters E: the
\* number of characters it takes (0 when it is skipped)
Exponent(t, p, E) ==
    IF At(t, p) \notin E THEN 0
    ELSE LET sign == IF At(t, p + 1) \in {"+", "-"} THEN 1 ELSE 0
             digits == RunLen(t, p + 1 + sign, Digits)
         IN IF digits > 0 THEN 1 + sign + digits ELSE 0

\* (?i)0x[\da-f]*(\.[\da-f]*)?(p[+-]?\d+)?
NumberHex(t, p) ==
    IF At(t, p) = "0" /\ At(t, p + 1) \in {"x", "X"}
    THEN LET hex == Digits \cup HexLetters
             a == p + 2 + RunLen(t, p + 2, hex)
             b == IF At(t, a) = "." THEN a + 1 + RunLen(t, a + 1, hex) ELSE a
         IN b + Exponent(t, b, {"p", "P"}) - p
    ELSE NoMatch

\* (?i)(\d*\.\d+|\d+\.\d*)(e[+-]?\d+)?
NumberFloat(t, p) ==
    LET int == RunLen(t, p, Digits)
        frac == RunLen(t, p + int + 1, Digits)
    IN IF At(t, p + int) = "." /\ (int > 0 \/ frac > 0)
       THEN int + 1 + frac + Exponent(t, p + int + 1 + frac, {"e", "E"})
       ELSE NoMatch

\* (?i)\d+e[+-]?\d+
NumberExp(t, p) ==
    LET int == RunLen(t, p, Digits)
    IN IF int > 0 /\ Exponent(t, p + int, {"e", "E"}) > 0
       THEN int + Exponent(t, p + int, {"e", "E"})
       ELSE NoMatch

\* \d+
NumberInteger(t, p) == IF At(t, p) \in Digits THEN RunLen(t, p, Digits) ELSE NoMatch

\* [=<>|~&+\-*/%#^]+|\.\.
OperatorRun(t, p) ==
    IF At(t, p) \in OperatorChars THEN RunLen(t, p, OperatorChars)
    ELSE IF StartsWith(t, p, <<".", ".">>) THEN 2
    ELSE NoMatch

\* [\[\]{}().,:;]+
PunctuationRun(t, p) ==
    IF At(t, p) \in PunctuationChars THEN RunLen(t, p, PunctuationChars) ELSE NoMatch

\* a literal
Literal(t, p, w) == IF StartsWith(t, p, w) THEN Len(w) ELSE NoMatch

\* the escapes without the quote characters
Escape_noquote(t, p) ==
    LET c == At(t, p + 1)
    IN IF At(t, p) # "\\" THEN NoMatch
       ELSE IF c \in EscapeLetters \ {"\"", "'"} THEN 2
       ELSE IF c \in {"\r", "\n"} THEN 1 + Min(2, RunLen(t, p + 1, {"\r", "\n"}))
       ELSE IF c = "z" THEN 2 + RunLen(t, p + 2, Spaces)
       ELSE IF c \in Digits THEN 1 + Min(3, RunLen(t, p + 1, Digits))
       ELSE NoMatch

\* \\([abfnrtv\\"\']|[\r\n]{1,2}|z\s*|x[0-9a-fA-F]{2}|\d{1,3}|u\{[0-9a-fA-F]+\})
Escape(t, p) ==
    LET c == At(t, p + 1)
        hex == Digits \cup HexLetters
    IN IF At(t, p) # "\\" THEN NoMatch
       ELSE IF c \in EscapeLetters THEN 2
       ELSE IF c \in {"\r", "\n"} THEN 1 + Min(2, RunLen(t, p + 1, {"\r", "\n"}))
       ELSE IF c = "z" THEN 2 + RunLen(t, p + 2, Spaces)
       ELSE IF c = "x" THEN
           (IF At(t, p + 2) \in hex /\ At(t, p + 3) \in hex THEN 4 ELSE NoMatch)
       ELSE IF c \in Digits THEN 1 + Min(3, RunLen(t, p + 1, Digits))
       ELSE IF c = "u" /\ At(t, p + 2) = "{" THEN
           (LET n == RunLen(t, p + 3, hex)
            IN IF n > 0 /\ At(t, p + 3 + n) = "}" THEN 4 + n ELSE NoMatch)
       ELSE NoMatch

\* [^q]+: a backslash taken as content
StringBody_backslash(t, p, q) ==
    IF RunLenNot(t, p, {q}) > 0 THEN RunLenNot(t, p, {q}) ELSE NoMatch

\* [^\\q]+ for the quote character q
StringBody(t, p, q) ==
    IF RunLenNot(t, p, {"\\", q}) > 0 THEN RunLenNot(t, p, {"\\", q}) ELSE NoMatch

\* #!.*
Shebang(t, p) ==
    IF StartsWith(t, p, <<"#", "!">>) THEN 2 + RunToEOL(t, p + 2) ELSE NoMatch

(***************************************************************************)
(* The rule tables: LuaLexer.tokens.                                       *)
(***************************************************************************)
\* a rule (regex, token type, new state); new_state "" stands for no
\* transition and token "" for no token
Rule(pat, token, new_state) == [pat |-> pat, token |-> token, new_state |-> new_state]

\* a default transition that pops
default_pop(state) == Rule("", "", "#pop")

\* a default rule that enters no state
default_stay(state) == Rule("", "", "")

\* default(state): matches the empty string, emits nothing, enters state
default(state) == Rule("", "", state)

\* the regular expression of a rule, matched at offset p of t
Match(pat, t, p) ==
    CASE pat = "" -> 0
      [] pat = "#!.*" -> Shebang(t, p)
      [] pat = "_comment_multiline" -> _comment_multiline(t, p)
      [] pat = "_comment_single" -> _comment_single(t, p)
      [] pat = "_space" -> _space(t, p)
      [] pat = "0x[\\da-f]*(\\.[\\da-f]*)?(p[+-]?\\d+)?" -> NumberHex(t, p)
      [] pat = "(\\d*\\.\\d+|\\d+\\.\\d*)(e[+-]?\\d+)?" -> NumberFloat(t, p)
      [] pat = "\\d+e[+-]?\\d+" -> NumberExp(t, p)
      [] pat = "\\d+" -> NumberInteger(t, p)
      [] pat = "\\[(=*)\\[.*?\\]\\1\\]" -> LongBracket(t, p)
      [] pat = "::" -> Literal(t, p, <<":", ":">>)
      [] pat = "\\.{3}" -> Literal(t, p, <<".", ".", ".">>)
      [] pat = "[=<>|~&+\\-*/%#^]+|\\.\\." -> OperatorRun(t, p)
      [] pat = "[\\[\\]{}().,:;]+" -> PunctuationRun(t, p)
      [] pat = "(and|or|not)\\b" -> Words(t, p, OperatorWords)
      [] pat = "words(reserved)" -> Words(t, p, ReservedWords)
      [] pat = "goto\\b" -> Words(t, p, GotoWord)
      [] pat = "(local)\\b" -> Words(t, p, LocalWord)
      [] pat = "(true|false|nil)\\b" -> Words(t, p, ConstantWords)
      [] pat = "(function)\\b" -> Words(t, p, FunctionWord)
      [] pat = "words(all_lua_builtins())" -> Words(t, p, all_lua_builtins)
      [] pat = "name(?=_s*[.:])" -> NameBefore(t, p, {".", ":"})
      [] pat = "name(?=_s*\\()" -> NameBefore(t, p, {"("})
      [] pat = "name" -> _name(t, p)
      [] pat = "'" -> Literal(t, p, <<"'">>)
      [] pat = "\"" -> Literal(t, p, <<"\"">>)
      [] pat = "\\.\\." -> Literal(t, p, <<".", ".">>)
      [] pat = "[.:]" -> (IF At(t, p) \in {".", ":"} THEN 1 ELSE NoMatch)
      [] pat = "\\(" -> Literal(t, p, <<"(">>)
      [] pat = "escape" -> Escape(t, p)
      [] pat = "[^\\\\']+" -> StringBody(t, p, "'")
      [] pat = "[^\\\\\"]+" -> StringBody(t, p, "\"")

\* tokens["ws"]
ws ==
    << Rule("_comment_multiline", "Comment.Multiline", ""),
       Rule("_comment_single", "Comment.Single", ""),
       Rule("_space", "Whitespace", "") >>

\* tokens["stringescape"]
stringescape == << Rule("escape", "String.Escape", "") >>

\* tokens["sqs"]
sqs ==
    << Rule("'", "String.Single", "#pop"),
       Rule("[^\\\\']+", "String.Single", "") >>

\* tokens["dqs"]
dqs ==
    << Rule("\"", "String.Double", "#pop"),
       Rule("[^\\\\\"]+", "String.Double", "") >>

\* base with the closing rule of the label mode: "::" pops
base_poplabel ==
    ws \o
    << Rule("0x[\\da-f]*(\\.[\\da-f]*)?(p[+-]?\\d+)?", "Number.Hex", ""),
       Rule("(\\d*\\.\\d+|\\d+\\.\\d*)(e[+-]?\\d+)?", "Number.Float", ""),
       Rule("\\d+e[+-]?\\d+", "Number.Float", ""),
       Rule("\\d+", "Number.Integer", ""),
       Rule("\\[(=*)\\[.*?\\]\\1\\]", "String", ""),
       Rule("::", "Punctuation", "#pop"),
       Rule("\\.{3}", "Punctuation", ""),
       Rule("[=<>|~&+\\-*/%#^]+|\\.\\.", "Operator", ""),
       Rule("[\\[\\]{}().,:;]+", "Punctuation", ""),
       Rule("(and|or|not)\\b", "Operator.Word", ""),
       Rule("words(reserved)", "Keyword.Reserved", ""),
       Rule("goto\\b", "Keyword.Reserved", "goto"),
       Rule("(local)\\b", "Keyword.Declaration", ""),
       Rule("(true|false|nil)\\b", "Keyword.Constant", ""),
       Rule("(function)\\b", "Keyword.Reserved", "funcname"),
       Rule("words(all_lua_builtins())", "Name.Builtin", ""),
       Rule("name(?=_s*[.:])", "Name.Variable", "varname"),
       Rule("name(?=_s*\\()", "Name.Function", ""),
       Rule("name", "Name.Variable", ""),
       Rule("'", "String.Single", "stringescape_sqs"),
       Rule("\"", "String.Double", "stringescape_dqs") >>

\* tokens["base"]; include("ws") puts the rules of ws in its place
base ==
    ws \o
    << Rule("0x[\\da-f]*(\\.[\\da-f]*)?(p[+-]?\\d+)?", "Number.Hex", ""),
       Rule("(\\d*\\.\\d+|\\d+\\.\\d*)(e[+-]?\\d+)?", "Number.Float", ""),
       Rule("\\d+e[+-]?\\d+", "Number.Float", ""),
       Rule("\\d+", "Number.Integer", ""),
       Rule("\\[(=*)\\[.*?\\]\\1\\]", "String", ""),
       Rule("::", "Punctuation", "label"),
       Rule("\\.{3}", "Punctuation", ""),
       Rule("[=<>|~&+\\-*/%#^]+|\\.\\.", "Operator", ""),
       Rule("[\\[\\]{}().,:;]+", "Punctuation", ""),
       Rule("(and|or|not)\\b", "Operator.Word", ""),
       Rule("words(reserved)", "Keyword.Reserved", ""),
       Rule("goto\\b", "Keyword.Reserved", "goto"),
       Rule("(local)\\b", "Keyword.Declaration", ""),
       Rule("(true|false|nil)\\b", "Keyword.Constant", ""),
       Rule("(function)\\b", "Keyword.Reserved", "funcname"),
       Rule("words(all_lua_builtins())", "Name.Builtin", ""),
       Rule("name(?=_s*[.:])", "Name.Variable", "varname"),
       Rule("name(?=_s*\\()", "Name.Function", ""),
       Rule("name", "Name.Variable", ""),
       Rule("'", "String.Single", "stringescape_sqs"),
       Rule("\"", "String.Double", "stringescape_dqs") >>

\* varname leaving the mode at every property
varname_popping ==
    ws \o
    << Rule("\\.\\.", "Operator", "#pop"),
       Rule("[.:]", "Punctuation", ""),
       Rule("name(?=_s*[.:])", "Name.Property", "#pop"),
       Rule("name(?=_s*\\()", "Name.Function", "#pop"),
       Rule("name", "Name.Property", "#pop") >>

\* varname without its punctuation rule
varname_nopunct ==
    ws \o
    << Rule("\\.\\.", "Operator", "#pop"),
       Rule("name(?=_s*[.:])", "Name.Property", ""),
       Rule("name(?=_s*\\()", "Name.Function", "#pop"),
       Rule("name", "Name.Property", "#pop") >>

\* tokens["varname"]
varname ==
    ws \o
    << Rule("\\.\\.", "Operator", "#pop"),
       Rule("[.:]", "Punctuation", ""),
       Rule("name(?=_s*[.:])", "Name.Property", ""),
       Rule("name(?=_s*\\()", "Name.Function", "#pop"),
       Rule("name", "Name.Property", "#pop") >>

\* tokens["funcname"]
funcname ==
    ws \o
    << Rule("[.:]", "Punctuation", ""),
       Rule("name(?=_s*[.:])", "Name.Class", ""),
       Rule("name", "Name.Function", "#pop"),
       Rule("\\(", "Punctuation", "#pop") >>

\* the label mode popped by its first name
tokens_labelpop ==
    [root |-> << Rule("#!.*", "Comment.Preproc", ""), default("base") >>,
     ws |-> ws,
     base |-> base,
     varname |-> varname,
     funcname |-> funcname,
     goto |-> ws \o << Rule("name", "Name.Label", "#pop") >>,
     label |-> ws \o << Rule("::", "Punctuation", "#pop"),
                        Rule("name", "Name.Label", "#pop") >>,
     stringescape |-> stringescape,
     sqs |-> sqs,
     dqs |-> dqs,
     stringescape_sqs |-> stringescape \o sqs,
     stringescape_dqs |-> stringescape \o dqs]

\* LuaLexer.tokens: state name -> rules in order.  stringescape_sqs and
\* stringescape_dqs are the states combined("stringescape", "sqs") and
\* combined("stringescape", "dqs") make: the rules of the first, then those
\* of the second.
tokens ==
    [root |-> << Rule("#!.*", "Comment.Preproc", ""), default("base") >>,
     ws |-> ws,
     base |-> base,
     varname |-> varname,
     funcname |-> funcname,
     goto |-> ws \o << Rule("name", "Name.Label", "#pop") >>,
     label |-> ws \o << Rule("::", "Punctuation", "#pop"),
                        Rule("name", "Name.Label", "") >>,
     stringescape |-> stringescape,
     sqs |-> sqs,
     dqs |-> dqs,
     stringescape_sqs |-> stringescape \o sqs,
     stringescape_dqs |-> stringescape \o dqs]

(***************************************************************************)
(* The lexer object and one scan of it.                                    *)
(***************************************************************************)
VARIABLES
    text,                    \* the input of the scan
    func_name_highlighting,  \* self.func_name_highlighting
    disabled_modules,        \* self.disabled_modules
    _functions,              \* self._functions
    pos,                     \* the scanner's offset
    statestack,              \* the scanner's mode stack, top last
    raw,                     \* the tokens the scanner has yielded
    consumed,                \* how many of them the classifier has taken
    out,                     \* the tokens get_tokens_unprocessed has yielded
    raised,                  \* the classifier pass ended in an exception
    done,                    \* the token stream is exhausted
    other                    \* the frame of a second scan of the same input by
                             \* the same lexer, suspended between two tokens

vars ==
    << text, func_name_highlighting, disabled_modules, _functions, pos,
       statestack, raw, consumed, out, raised, done, other >>

\* the largest number of fragments of an input
MaxFrags == 3

\* the pieces the inputs of Spec are made of: names, builtins, punctuation,
\* blanks, a comment, a character no rule matches
Fragments ==
    { <<"a">>, <<"1">>, <<".">>, <<":">>, <<"(">>, <<" ">>, <<"\n">>, <<"!">>,
      <<"p", "r", "i", "n", "t">>,
      <<"s", "t", "r", "i", "n", "g", ".", "l", "e", "n">>,
      <<"-", "-", "[", "[", "c", "]", "]">> }

\* the pieces of quoted strings
StringFragments ==
    { <<"\"">>, <<"'">>, <<"\\">>, <<"a">>, <<"t">>, <<"q">>, <<"1">>, <<"x">>,
      <<"\n">>, <<" ">> }

\* the pieces of long-bracket comments and strings
CommentFragments ==
    { <<"-", "-", "[", "[">>, <<"-", "-", "[", "=", "[">>,
      <<"-", "-", "[", "=", "=", "[">>, <<"[", "=", "[">>,
      <<"]", "]">>, <<"]", "=", "]">>, <<"]", "=", "=", "]">>,
      <<"c">>, <<"=">>, <<"]">>, <<"\n">> }

\* inputs every specification scans, whatever the bound
Examples ==
    { <<"t", "a", "b", "l", "e", ".", "u", "n", "k", "n", "o", "w", "n", "f", "n">>,
      <<"f", "o", "o", ".", "b", "a", "r", "(", ")">>,
      <<"\"", "a", "\\", "t", "b", "\"">>,
      <<"'", "a", "\\", "'", "b", "'">>,
      <<"-", "-", "[", "=", "=", "[", " ", "c", " ", "]", "=", "]", " ", "c", " ",
        "]", "=", "=", "]">>,
      <<"f", "-", "-", "[", "[", "a", "]", "]", "(", ")", " ",
        "-", "-", "[", "[", "b", "]", "]", ".", "g">>,
      <<"p", "r", "i", "n", "t", "(", "s", "t", "r", "i", "n", "g", ".", "l", "e", "n",
        ")", " ", "!">> }
    \cup all_lua_builtins

\* the texts of at most n fragments
RECURSIVE Texts(_, _)
Texts(F, n) ==
    IF n = 0 THEN {<< >>}
    ELSE Texts(F, n - 1) \cup {t \o f : t \in Texts(F, n - 1), f \in F}

\* the configurations: the options of LuaLexer(**options)
Configs ==
    { [func_name_highlighting |-> TRUE, disabled_modules |-> {}],
      [func_name_highlighting |-> TRUE, disabled_modules |-> {"string"}],
      [func_name_highlighting |-> FALSE, disabled_modules |-> {}] }

\* disabled_modules ignored
EnabledFunctions_all(highlighting, disabled) ==
    IF highlighting THEN UNION {MODULES[mod] : mod \in DOMAIN MODULES} ELSE {}

\* LuaLexer.__init__: the names of the modules that are not disabled, none
\* when builtin highlighting is off
EnabledFunctions(highlighting, disabled) ==
    IF highlighting
    THEN UNION {MODULES[mod] : mod \in {m \in DOMAIN MODULES : m \notin disabled}}
    ELSE {}

\* the frame of a scan: what a call of get_tokens_unprocessed(text) keeps
\* between two tokens
Frame(p, stack, r, c, o, e, d) ==
    [pos |-> p, statestack |-> stack, raw |-> r, consumed |-> c, out |-> o,
     raised |-> e, done |-> d]

\* the state after construction, at the start of the scans of an input
InitWith(inputs) ==
    /\ text \in inputs
    /\ \E c \in Configs :
          /\ func_name_highlighting = c.func_name_highlighting
          /\ disabled_modules = c.disabled_modules
          /\ _functions = EnabledFunctions(c.func_name_highlighting, c.disabled_modules)
    /\ pos = 0
    /\ statestack = <<"root">>
    /\ raw = << >>
    /\ consumed = 0
    /\ out = << >>
    /\ raised = FALSE
    /\ done = FALSE
    /\ other = Frame(0, <<"root">>, << >>, 0, << >>, FALSE, FALSE)

Init == InitWith(Texts(Fragments, MaxFrags) \cup Examples)

InitString == InitWith(Texts(StringFragments, MaxFrags) \cup Examples)

InitComment == InitWith(Texts(CommentFragments, MaxFrags) \cup Examples)

\* the index of the first rule of state that matches at offset p, 0 if none
FirstMatch(t, p, state) ==
    LET hits == {i \in DOMAIN tokens[state] : Match(tokens[state][i].pat, t, p) # NoMatch}
    IN IF hits = {} THEN 0 ELSE MinOf(hits)

\* the stack after the transition of a rule
Transition(stack, new_state) ==
    IF new_state = "" THEN stack
    ELSE IF new_state = "#pop" THEN SubSeq(stack, 1, Len(stack) - 1)
    ELSE Append(stack, new_state)

Token(index, token, value) == [index |-> index, token |-> token, value |-> value]

\* the scanner is asked for its next token: the classifier holds none
Pulling == ~done /\ ~raised /\ consumed = Len(raw) /\ pos < Len(text)

\* one step of the scanner: the first rule of the top mode that matches
ScanMatch ==
    /\ Pulling
    /\ FirstMatch(text, pos, statestack[Len(statestack)]) # 0
    /\ LET rule == tokens[statestack[Len(statestack)]]
                         [FirstMatch(text, pos, statestack[Len(statestack)])]
           m == Match(rule.pat, text, pos)
       IN /\ raw' = IF rule.token = "" THEN raw
                    ELSE Append(raw, Token(pos, rule.token, Slice(text, pos, pos + m)))
          /\ statestack' = Transition(statestack, rule.new_state)
          /\ pos' = pos + m
    /\ UNCHANGED << text, func_name_highlighting, disabled_modules, _functions,
                    consumed, out, raised, done, other >>

\* one step of the scanner: no rule of the top mode matches
ScanError ==
    /\ Pulling
    /\ FirstMatch(text, pos, statestack[Len(statestack)]) = 0
    /\ raw' = Append(raw, Token(pos, "Error", Slice(text, pos, pos + 1)))
    /\ pos' = pos + 1
    /\ UNCHANGED << text, func_name_highlighting, disabled_modules, _functions,
                    statestack, consumed, out, raised, done, other >>

\* value.split("."): the parts of value between its dots
RECURSIVE split(_)
split(value) ==
    IF \E i \in DOMAIN value : value[i] = "."
    THEN LET i == MinOf({j \in DOMAIN value : value[j] = "."})
         IN << SubSeq(value, 1, i - 1) >> \o split(SubSeq(value, i + 1, Len(value)))
    ELSE << value >>

\* the split with the last part one character early
get_tokens_unprocessed_early(functions, index, token, value) ==
    IF token = "Name.Builtin" /\ value \notin functions
    THEN IF \E i \in DOMAIN value : value[i] = "."
         THEN << Token(index, "Name", split(value)[1]),
                 Token(index + Len(split(value)[1]), "Punctuation", <<".">>),
                 Token(index + Len(split(value)[1]), "Name", split(value)[2]) >>
         ELSE << Token(index, "Name", value) >>
    ELSE << Token(index, token, value) >>

\* a disabled qualified builtin kept in one piece
get_tokens_unprocessed_whole(functions, index, token, value) ==
    IF token = "Name.Builtin" /\ value \notin functions
    THEN << Token(index, "Name", value) >>
    ELSE << Token(index, token, value) >>

\* no check against the enabled set
get_tokens_unprocessed_unchecked(functions, index, token, value) ==
    << Token(index, token, value) >>

\* every builtin reclassified, enabled or not
get_tokens_unprocessed_always(functions, index, token, value) ==
    IF token = "Name.Builtin"
    THEN IF \E i \in DOMAIN value : value[i] = "."
         THEN << Token(index, "Name", split(value)[1]),
                 Token(index + Len(split(value)[1]), "Punctuation", <<".">>),
                 Token(index + Len(split(value)[1]) + 1, "Name", split(value)[2]) >>
         ELSE << Token(index, "Name", value) >>
    ELSE << Token(index, token, value) >>

\* the body of the loop of LuaLexer.get_tokens_unprocessed: the tokens it
\* yields for one token of the scanner
get_tokens_unprocessed(functions, index, token, value) ==
    IF token = "Name.Builtin" /\ value \notin functions
    THEN IF \E i \in DOMAIN value : value[i] = "."
         THEN LET a == split(value)[1]
                  b == split(value)[2]
              IN << Token(index, "Name", a),
                    Token(index + Len(a), "Punctuation", <<".">>),
                    Token(index + Len(a) + 1, "Name", b) >>
         ELSE << Token(index, "Name", value) >>
    ELSE << Token(index, token, value) >>

\* a, b = value.split(".") raises ValueError unless there are two parts
Unpackable(functions, token, value) ==
    (token = "Name.Builtin" /\ value \notin functions
        /\ \E i \in DOMAIN value : value[i] = ".")
    => Len(split(value)) = 2

\* a builtin the classifier has seen is dropped from the shared set
Classify_discarding ==
    /\ ~done /\ ~raised /\ consumed < Len(raw)
    /\ LET tok == raw[consumed + 1]
       IN IF Unpackable(_functions, tok.token, tok.value)
          THEN /\ out' = out \o get_tokens_unprocessed(_functions, tok.index,
                                                       tok.token, tok.value)
               /\ raised' = FALSE
          ELSE /\ out' = out
               /\ raised' = TRUE
    /\ consumed' = consumed + 1
    /\ _functions' = _functions \ {raw[consumed + 1].value}
    /\ UNCHANGED << text, func_name_highlighting, disabled_modules,
                    pos, statestack, raw, done, other >>

\* the classifier takes the scanner's next token
Classify ==
    /\ ~done /\ ~raised /\ consumed < Len(raw)
    /\ LET tok == raw[consumed + 1]
       IN IF Unpackable(_functions, tok.token, tok.value)
          THEN /\ out' = out \o get_tokens_unprocessed(_functions, tok.index,
                                                       tok.token, tok.value)
               /\ raised' = FALSE
          ELSE /\ out' = out
               /\ raised' = TRUE
    /\ consumed' = consumed + 1
    /\ UNCHANGED << text, func_name_highlighting, disabled_modules, _functions,
                    pos, statestack, raw, done, other >>

\* the scanner is at the end of the input: the stream ends
Finish ==
    /\ ~done /\ ~raised /\ consumed = Len(raw) /\ pos >= Len(text)
    /\ done' = TRUE
    /\ UNCHANGED << text, func_name_highlighting, disabled_modules, _functions,
                    pos, statestack, raw, consumed, out, raised, other >>

Next == ScanMatch \/ ScanError \/ Classify \/ Finish

Spec == Init /\ [][Next]_vars

\* the caller turns from the running scan to the suspended one: each scan
\* keeps its own frame, the lexer object is the same
Switch ==
    /\ pos' = other.pos
    /\ statestack' = other.statestack
    /\ raw' = other.raw
    /\ consumed' = other.consumed
    /\ out' = other.out
    /\ raised' = other.raised
    /\ done' = other.done
    /\ other' = Frame(pos, statestack, raw, consumed, out, raised, done)
    /\ UNCHANGED << text, func_name_highlighting, disabled_modules, _functions >>

\* two scans of one input, drained in any interleaving
NextTwo == ScanMatch \/ ScanError \/ Classify \/ Finish \/ Switch

\* names, a dot and builtins, plain and qualified
TwoFragments ==
    { <<"a">>, <<".">>, <<"p", "r", "i", "n", "t">>,
      <<"s", "t", "r", "i", "n", "g", ".", "l", "e", "n">> }

InitTwo == InitWith(Texts(TwoFragments, MaxFrags) \cup Examples)

SpecTwo == InitTwo /\ [][NextTwo]_vars

\* the pieces of dotted names, function names, labels and a shebang line
ModeFragments ==
    { <<"a">>, <<".">>, <<":">>, <<":", ":">>, <<"(">>, <<" ">>,
      <<"g", "o", "t", "o">>, <<"f", "u", "n", "c", "t", "i", "o", "n">>,
      <<"#", "!">> }

\* inputs that pass through every mode
ModeExamples ==
    { <<"a", ".", "b", ".", "c">>,
      <<"a", ".", ".", "b">>,
      <<"a", ".", "b", ".", ".", "c">>,
      <<"g", "o", "t", "o", " ", "a", " ", "b">>,
      <<":", ":", "a", " ", "b", ":", ":", " ", "c">>,
      <<"f", "u", "n", "c", "t", "i", "o", "n", " ", "a", ".", "b", ":", "c", "(", ")">>,
      <<"f", "u", "n", "c", "t", "i", "o", "n", "(", ")">>,
      <<"f", "u", "n", "c", "t", "i", "o", "n", " ", "f", "-", "-", "[", "[", "a", "]", "]",
        "(", ")", " ", "-", "-", "[", "[", "b", "]", "]", ".", "g">>,
      <<"#", "!", "a", "\n", "b", ".", "c">>,
      <<"#", "!", "a", "\n", "#", "!", "b", ".", "c">>,
      <<"'", "\\", "q", "\"", "\n", "\\">>,
      <<"\"", "\\", " ", "'", "\\">> }

InitModes == InitWith(Texts(ModeFragments, MaxFrags) \cup Examples \cup ModeExamples)

\* scans of dotted names, function names and labels
SpecModes == InitModes /\ [][Next]_vars

\* openers of long brackets and of quoted strings, a closer of level 0
OpenFragments ==
    { <<"-", "-", "[", "[">>, <<"-", "-", "[", "=", "[">>, <<"[", "[">>,
      <<"[", "=", "[">>, <<"]", "]">>, <<"\"">>, <<"'">>, <<"c">>, <<"\n">> }

InitOpen == InitWith(Texts(OpenFragments, MaxFrags) \cup Examples)

\* scans of constructs left open
SpecOpen == InitOpen /\ [][Next]_vars

\* scans of quoted strings
SpecString == InitString /\ [][Next]_vars

\* scans of long-bracket comments
SpecComment == InitComment /\ [][Next]_vars

(***************************************************************************)
(* Properties.                                                             *)
(***************************************************************************)
\* the offset after the last character of a token
End(tok) == tok.index + Len(tok.value)

\* the tokens of the final stream that start inside the scanner token tok
Within(tok) == SelectSeq(out, LAMBDA o : o.index >= tok.index /\ o.index < End(tok))

\* the scanner tokens the classifier has taken
Taken == {k \in DOMAIN raw : k <= consumed}

\* the enabled-builtin set, from the registry and the configuration alone
EnabledSet ==
    {w \in all_lua_builtins :
        /\ func_name_highlighting
        /\ \E mod \in DOMAIN MODULES : mod \notin disabled_modules /\ w \in MODULES[mod]}

\* C1: the tokens of the final stream partition the input: the first starts
\* at offset 0, each next one where the one before ends, each is the
\* (non-empty) text of the input at its offset, and once the stream has
\* ended the last token ends at the end of the input.
C1_Partition ==
    /\ \A j \in DOMAIN out :
          /\ out[j].index = (IF j = 1 THEN 0 ELSE End(out[j - 1]))
          /\ Len(out[j].value) > 0
          /\ End(out[j]) <= Len(text)
          /\ out[j].value = Slice(text, out[j].index, End(out[j]))
    /\ done => (IF out = << >> THEN text = << >> ELSE End(out[Len(out)]) = Len(text))

\* a finished scan whose stream holds the three parts of a split builtin
C1_Witness ==
    /\ done
    /\ Len(out) >= 4
    /\ \E j \in DOMAIN out :
          /\ j + 2 <= Len(out)
          /\ out[j].token = "Name"
          /\ out[j + 1].token = "Punctuation"
          /\ out[j + 2].token = "Name"

\* C2: a scanner token tagged as a builtin is a name of the registry; when
\* it is not in the enabled set, the classifier yields for it, at its
\* offset i, the plain name alone if it has no dot, and otherwise the name
\* before the dot at i, the punctuation "." right after it and the name after
\* the dot, which put together are the original text.  The pass never
\* raises.
C2_Split ==
    /\ ~raised
    /\ \A k \in DOMAIN raw : raw[k].token = "Name.Builtin" => raw[k].value \in all_lua_builtins
    /\ \A k \in Taken :
          (raw[k].token = "Name.Builtin" /\ raw[k].value \notin EnabledSet) =>
             LET v == raw[k].value
                 i == raw[k].index
                 w == Within(raw[k])
                 dots == {d \in DOMAIN v : v[d] = "."}
             IN IF dots = {}
                THEN w = << Token(i, "Name", v) >>
                ELSE \E d \in dots :
                        /\ \A e \in dots : d <= e
                        /\ Len(w) = 3
                        /\ w[1] = Token(i, "Name", SubSeq(v, 1, d - 1))
                        /\ w[2] = Token(i + d - 1, "Punctuation", <<".">>)
                        /\ w[3] = Token(i + d, "Name", SubSeq(v, d + 1, Len(v)))
                        /\ w[1].value \o w[2].value \o w[3].value = v

\* the classifier has taken a disabled builtin with a dot and one without
C2_Witness ==
    /\ \E k \in Taken :
          /\ raw[k].token = "Name.Builtin" /\ raw[k].value \notin EnabledSet
          /\ \E d \in DOMAIN raw[k].value : raw[k].value[d] = "."
    /\ \E k \in Taken :
          /\ raw[k].token = "Name.Builtin" /\ raw[k].value \notin EnabledSet
          /\ \A d \in DOMAIN raw[k].value : raw[k].value[d] # "."

\* the names that belong to the string module and to no other
OnlyString ==
    {w \in MODULES["string"] :
        \A mod \in DOMAIN MODULES : mod # "string" => w \notin MODULES[mod]}

\* C3: with disabled_modules = ["string"], a name that belongs only to the
\* string module and that the scanner tagged as a builtin reaches the final
\* stream as plain names, none of its tokens a builtin; with the default
\* configuration it reaches the final stream as the same builtin token.
C3_Gating ==
    \A k \in Taken :
       (raw[k].token = "Name.Builtin" /\ raw[k].value \in OnlyString) =>
          /\ (func_name_highlighting /\ disabled_modules = {"string"}) =>
                /\ Len(Within(raw[k])) >= 1
                /\ Within(raw[k])[1].index = raw[k].index
                /\ Within(raw[k])[1].token = "Name"
                /\ \A j \in DOMAIN Within(raw[k]) : Within(raw[k])[j].token # "Name.Builtin"
          /\ (func_name_highlighting /\ disabled_modules = {}) =>
                Within(raw[k]) = << raw[k] >>

\* a call of a name of the string module alone, scanned with the string
\* module disabled
C3_Witness ==
    /\ func_name_highlighting /\ disabled_modules = {"string"}
    /\ done
    /\ \E k \in Taken :
          /\ raw[k].token = "Name.Builtin" /\ raw[k].value \in OnlyString
          /\ At(text, End(raw[k])) = "("

\* the qualified reference of the example, table.unknownfn
TableUnknownfn ==
    <<"t", "a", "b", "l", "e", ".", "u", "n", "k", "n", "o", "w", "n", "f", "n">>

\* the token types of names that are neither builtins nor function names
PlainNames == {"Name", "Name.Variable", "Name.Property"}

\* the finished scan of table.unknownfn gives a name table, the punctuation
\* "." and a name unknownfn, the last of them ending at offset last
SplitsTableUnknownfn(last) ==
    (text = TableUnknownfn /\ done) =>
       /\ Len(out) = 3
       /\ out[1].index = 0 /\ End(out[1]) = 5 /\ out[1].token \in PlainNames
       /\ out[1].value = <<"t", "a", "b", "l", "e">>
       /\ out[2].index = 5 /\ End(out[2]) = 6 /\ out[2] = Token(5, "Punctuation", <<".">>)
       /\ out[3].index = 6 /\ End(out[3]) = last /\ out[3].token \in PlainNames
       /\ out[3].value = <<"u", "n", "k", "n", "o", "w", "n", "f", "n">>

\* C4 as stated: the three tokens of table.unknownfn are at [0,5), [5,6) and
\* [6,16).
C4_Original == SplitsTableUnknownfn(16)

\* C4, amended: scanning table.unknownfn emits the name table at [0,5), the
\* punctuation "." at [5,6) and the name unknownfn at [6,15).
C4_QualifiedSplit == SplitsTableUnknownfn(15)

\* the scan of table.unknownfn has ended
C4_Witness == text = TableUnknownfn /\ done /\ Len(out) = 3

\* C5: every token of the final stream that is classified as a builtin has a
\* text of the enabled-builtin set, which is empty when builtin highlighting
\* is off.
C5_OnlyEnabled ==
    \A j \in DOMAIN out : out[j].token = "Name.Builtin" =>
        /\ func_name_highlighting
        /\ out[j].value \in EnabledSet

\* the final stream holds a builtin while the classifier has reclassified
\* another
C5_Witness ==
    /\ \E j \in DOMAIN out : out[j].token = "Name.Builtin"
    /\ \E k \in Taken : raw[k].token = "Name.Builtin" /\ raw[k].value \notin EnabledSet

\* C6: every scanner token that is not tagged as a builtin, or is an enabled
\* builtin, is in the final stream exactly once, unchanged; the final stream
\* is in the order of the scanner's stream and holds nothing that does not
\* come from a token of it.
C6_PassThrough ==
    /\ \A k \in Taken :
          (raw[k].token # "Name.Builtin" \/ raw[k].value \in EnabledSet) =>
             /\ Within(raw[k]) = << raw[k] >>
             /\ Cardinality({j \in DOMAIN out : out[j] = raw[k]}) = 1
    /\ \A k1, k2 \in DOMAIN raw : k1 < k2 => End(raw[k1]) <= raw[k2].index
    /\ \A j1, j2 \in DOMAIN out : j1 < j2 => out[j1].index < out[j2].index
    /\ \A j \in DOMAIN out :
          \E k \in Taken : out[j].index >= raw[k].index /\ out[j].index < End(raw[k])

\* the classifier has passed an enabled builtin and another token through
\* and has reclassified a third
C6_Witness ==
    /\ consumed = Len(raw)
    /\ \E k \in Taken : raw[k].token = "Name.Builtin" /\ raw[k].value \in EnabledSet
    /\ \E k \in Taken : raw[k].token = "Name.Builtin" /\ raw[k].value \notin EnabledSet
    /\ \E k \in Taken : raw[k].token \notin {"Name.Builtin", "Error"}

\* the token type the final stream gives the character at offset o
KindAt(o) ==
    LET covering == {j \in DOMAIN out : out[j].index <= o /\ o < End(out[j])}
    IN IF covering = {} THEN "" ELSE out[CHOOSE j \in covering : TRUE].token

\* the number of characters the first rule of ws that matches at p takes
WsLen(t, p) ==
    IF _comment_multiline(t, p) # NoMatch THEN _comment_multiline(t, p)
    ELSE IF _comment_single(t, p) # NoMatch THEN _comment_single(t, p)
    ELSE _space(t, p)

\* the offset of the first character at or after p that is not part of a
\* comment or whitespace token
RECURSIVE SkipWs(_, _)
SkipWs(t, p) == IF WsLen(t, p) > 0 THEN SkipWs(t, p + WsLen(t, p)) ELSE p

\* the example of C7, foo.bar()
FooBar == <<"f", "o", "o", ".", "b", "a", "r", "(", ")">>

\* the token types of the identifier rules of the base and varname modes
IdentifierKinds == {"Name.Variable", "Name.Function", "Name.Property"}

\* the scanner, in the base or the varname mode, yields an identifier token
IdentifierStep ==
    /\ Pulling
    /\ statestack[Len(statestack)] \in {"base", "varname"}
    /\ Len(raw') = Len(raw) + 1
    /\ raw'[Len(raw')].token \in IdentifierKinds

\* C7: in the scan of foo.bar(), foo is a plain name, "." punctuation, bar a
\* function name and "(" and ")" punctuation; and whenever the scanner
\* yields an identifier in the base or varname mode, if the next character
\* after the whitespace and comments that follow it is "(" the identifier is
\* a function name, and if it is "." or ":" the identifier is a variable or
\* property and the scanner is in the property mode afterwards.
C7_Roles ==
    /\ []((text = FooBar /\ done) =>
            /\ out[1] = Token(0, "Name.Variable", <<"f", "o", "o">>)
            /\ out[2] = Token(3, "Punctuation", <<".">>)
            /\ out[3] = Token(4, "Name.Function", <<"b", "a", "r">>)
            /\ KindAt(7) = "Punctuation" /\ KindAt(8) = "Punctuation")
    /\ [][IdentifierStep =>
            LET tok == raw'[Len(raw')]
                c == At(text, SkipWs(text, End(tok)))
            IN /\ c = "(" => tok.token = "Name.Function"
               /\ c \in {".", ":"} =>
                     /\ tok.token \in {"Name.Variable", "Name.Property"}
                     /\ statestack'[Len(statestack')] = "varname"]_vars

\* the example of C8, "a\tb" between double quotes
QuotedATabB == <<"\"", "a", "\\", "t", "b", "\"">>

\* the scanner is asked for a token inside a quoted string
InString ==
    /\ Pulling
    /\ statestack[Len(statestack)] \in {"stringescape_sqs", "stringescape_dqs"}

\* C8: the scan of "a\tb" yields an opening quote, the content a, the escape
\* \t, the content b and a closing quote, and ends with the string mode
\* popped; inside a quoted string a recognized escape sequence is yielded as
\* one String.Escape token without leaving the string, and a backslash
\* followed by a quote character is consumed together with the quote, the
\* string staying open.
C8_Escapes ==
    /\ []((text = QuotedATabB /\ done) =>
            /\ out = << Token(0, "String.Double", <<"\"">>),
                        Token(1, "String.Double", <<"a">>),
                        Token(2, "String.Escape", <<"\\", "t">>),
                        Token(4, "String.Double", <<"b">>),
                        Token(5, "String.Double", <<"\"">>) >>
            /\ statestack = <<"root", "base">>)
    /\ [][(InString /\ Escape(text, pos) # NoMatch) =>
            /\ raw' = Append(raw, Token(pos, "String.Escape",
                                        Slice(text, pos, pos + Escape(text, pos))))
            /\ statestack' = statestack]_vars
    /\ [][(InString /\ At(text, pos) = "\\" /\ At(text, pos + 1) \in {"\"", "'"}) =>
            /\ pos' = pos + 2
            /\ raw'[Len(raw')].token = "String.Escape"
            /\ statestack' = statestack]_vars

\* the scan of "a\tb" has ended
C8_Witness == text = QuotedATabB /\ done /\ Len(out) = 5

\* a long-bracket comment of level n opens at offset p
IsOpener(t, p, n) ==
    /\ StartsWith(t, p, <<"-", "-", "[">>)
    /\ \A i \in 0..(n - 1) : At(t, p + 3 + i) = "="
    /\ At(t, p + 3 + n) = "["

\* a closing bracket of level n is at offset q
IsCloser(t, q, n) ==
    /\ At(t, q) = "]"
    /\ \A i \in 1..n : At(t, q + i) = "="
    /\ At(t, q + n + 1) = "]"

\* the modes that include the rules of ws
WsModes == {"base", "varname", "funcname", "goto", "label"}

\* C9: every Comment.Multiline token starts with -- and an opening bracket
\* of some level n and ends with the first closing bracket of level n after
\* it (closing brackets of other levels inside it do not end it); and where
\* such a comment opens and a closing bracket of its level follows, the
\* scanner yields it as one Comment.Multiline token.
C9_LongComment ==
    /\ [](\A k \in DOMAIN raw : raw[k].token = "Comment.Multiline" =>
            \E n \in 0..Len(text) :
               LET open == raw[k].index
                   close == End(raw[k]) - n - 2
               IN /\ IsOpener(text, open, n)
                  /\ close >= open + 4 + n
                  /\ IsCloser(text, close, n)
                  /\ \A q \in (open + 4 + n)..(close - 1) : ~IsCloser(text, q, n))
    /\ [][(/\ Pulling
           /\ statestack[Len(statestack)] \in WsModes
           /\ \E n \in 0..Len(text) :
                 /\ IsOpener(text, pos, n)
                 /\ \E q \in (pos + 4 + n)..Len(text) : IsCloser(text, q, n)) =>
            /\ Len(raw') = Len(raw) + 1
            /\ raw'[Len(raw')].index = pos
            /\ raw'[Len(raw')].token = "Comment.Multiline"]_vars

\* a long comment that holds a closing bracket of another level
C9_Witness ==
    \E k \in DOMAIN raw :
       /\ raw[k].token = "Comment.Multiline"
       /\ \E n, m \in 0..3 :
             /\ n # m
             /\ IsOpener(text, raw[k].index, n)
             /\ \E q \in (raw[k].index + 4 + n)..(End(raw[k]) - n - 3) :
                   IsCloser(text, q, m) /\ ~IsCloser(text, q, n)

\* what is left of a scan: the characters not yet scanned, the default
\* transition of the root mode not yet taken, the tokens the classifier has
\* not yet taken, the end of the stream not yet reached
Remaining ==
    3 * (Len(text) - pos)
    + (IF statestack = <<"root">> THEN 1 ELSE 0)
    + 2 * (Len(raw) - consumed)
    + (IF done THEN 0 ELSE 1)

\* a step that changes the state can be taken: the scanner has a rule that
\* consumes a character or changes the stack, or no rule at all (it then
\* skips a character), or the classifier has a token to take, or the stream
\* can end
CanStep ==
    /\ ~done /\ ~raised
    /\ \/ consumed < Len(raw)
       \/ pos >= Len(text)
       \/ LET top == statestack[Len(statestack)]
              i == FirstMatch(text, pos, top)
          IN \/ i = 0
             \/ Match(tokens[top][i].pat, text, pos) > 0
             \/ Transition(statestack, tokens[top][i].new_state) # statestack

\* C10: every scan terminates with the offset at the end of the input: until
\* the stream has ended a step that changes the state can be taken, every
\* step makes what is left of the scan smaller, and what is left is never
\* negative; and at no time are there more tokens than the input has
\* characters.
C10_Termination ==
    /\ [](/\ pos <= Len(text)
          /\ Remaining >= 0
          /\ done \/ CanStep
          /\ done => pos = Len(text)
          /\ Len(raw) <= Len(text)
          /\ Len(out) <= Len(text))
    /\ [][Remaining' < Remaining]_vars

\* a finished scan of an input with a character no rule matches, with as
\* many tokens as characters
C10_Witness ==
    /\ done
    /\ Len(text) >= 3
    /\ Len(out) = Len(text)
    /\ \E j \in DOMAIN out : out[j].token = "Error"

\* no rule of the mode on top of the stack matches at the offset
NoRuleMatches ==
    \A i \in DOMAIN tokens[statestack[Len(statestack)]] :
       Match(tokens[statestack[Len(statestack)]][i].pat, text, pos) = NoMatch

\* the scanner skips one character as an Error token and stays in its mode
SkipsOneCharacter ==
    /\ raw' = Append(raw, Token(pos, "Error", << text[pos + 1] >>))
    /\ pos' = pos + 1
    /\ statestack' = statestack

\* C11: whenever no rule of the mode on top of the stack matches at the
\* offset (a `!` in the base mode is such a place), the scanner emits one
\* Error token of exactly that one character, moves on by one and keeps its
\* mode; the scan never aborts: until the stream has ended a further step
\* can be taken.
C11_ErrorRecovery ==
    /\ [][(Pulling /\ NoRuleMatches) => SkipsOneCharacter]_vars
    /\ [][(Pulling /\ statestack[Len(statestack)] = "base" /\ At(text, pos) = "!")
             => SkipsOneCharacter]_vars
    /\ [](~raised /\ (done \/ CanStep))

\* a finished scan with an Error token for a `!` and a token of another kind
\* after it
C11_Witness ==
    /\ done
    /\ \E j \in DOMAIN out :
          /\ out[j].token = "Error"
          /\ out[j].value = <<"!">>
          /\ j < Len(out)
          /\ out[j + 1].token # "Error"
          /\ out[j + 1].index = out[j].index + 1

\* one token sequence is the beginning of the other
Prefix(a, b) == Len(a) <= Len(b) /\ SubSeq(b, 1, Len(a)) = a

\* the frame of the running scan
Running == Frame(pos, statestack, raw, consumed, out, raised, done)

\* C12: two scans of the same input by the same lexer yield the same token
\* sequence, however their steps are interleaved: at any time the tokens of
\* one are the beginning of the tokens of the other and a scan that is as
\* far as the other (same offset, same number of tokens, the root mode left
\* by both or by neither) is in the same state, both finished scans have the
\* same tokens; a step of one scan leaves the frame of the other alone, and no
\* step changes the input, the options or the set of enabled builtins.
C12_Deterministic ==
    /\ [](/\ Prefix(out, other.out) \/ Prefix(other.out, out)
          /\ Prefix(raw, other.raw) \/ Prefix(other.raw, raw)
          /\ (pos = other.pos /\ Len(raw) = Len(other.raw)
                 /\ consumed = other.consumed /\ done = other.done
                 /\ (statestack = <<"root">>) = (other.statestack = <<"root">>))
             => Running = other
          /\ (done /\ other.done) => out = other.out)
    /\ [][UNCHANGED << text, func_name_highlighting, disabled_modules, _functions >>]_vars
    /\ [][\/ other' = other
          \/ other' = Running /\ Running' = other]_vars

\* both scans under way, neither finished, one further than the other, a
\* disabled builtin reclassified in both
C12_Witness ==
    /\ ~done /\ ~other.done
    /\ 0 < other.pos /\ other.pos < pos /\ pos < Len(text)
    /\ Len(other.out) > Len(other.raw)
    /\ Len(out) > Len(other.out)

\* C13: the mode stack is never empty and its bottom entry is the root mode:
\* a step that makes the stack shorter starts from a stack of three entries;
\* no rule of the root mode pops, and where the shebang rule does not match
\* the root mode moves to the base mode through its default transition,
\* which consumes nothing and yields no token.
C13_NeverEmpty ==
    /\ [](Len(statestack) >= 1 /\ statestack[1] = "root")
    /\ [](\A i \in DOMAIN tokens["root"] : tokens["root"][i].new_state # "#pop")
    /\ [][Len(statestack') < Len(statestack) =>
             Len(statestack) = 3 /\ statestack' = SubSeq(statestack, 1, 2)]_vars
    /\ [][(Pulling /\ statestack = <<"root">> /\ Shebang(text, pos) = NoMatch) =>
             /\ statestack' = <<"root", "base">>
             /\ pos' = pos
             /\ raw' = raw]_vars

\* a finished scan whose last step popped the goto mode, back on the base
\* mode above the root mode
C13_Witness ==
    /\ done
    /\ statestack = <<"root", "base">>
    /\ Len(raw) >= 2
    /\ raw[Len(raw)].token = "Name.Label"
    /\ raw[1].token = "Keyword.Reserved"

\* C14: no rule matches zero characters and stays: wherever the scanner
\* stands, a rule of the mode on top that matches the empty string is the
\* default transition of the root mode, the only rule of the tables with an
\* empty pattern; a scanner step that consumes nothing starts on the root
\* mode alone, pushes the base mode and yields no token, so the next step
\* cannot be one; every other scanner step consumes at least one character,
\* and every token has at least one character.
C14_Progress ==
    /\ [](\A state \in DOMAIN tokens : \A i \in DOMAIN tokens[state] :
             tokens[state][i].pat = "" =>
                state = "root" /\ tokens[state][i] = default("base"))
    /\ [](Pulling =>
             \A i \in DOMAIN tokens[statestack[Len(statestack)]] :
                Match(tokens[statestack[Len(statestack)]][i].pat, text, pos) = 0 =>
                   /\ statestack = <<"root">>
                   /\ tokens["root"][i] = default("base"))
    /\ [](\A k \in DOMAIN raw : Len(raw[k].value) >= 1)
    /\ [][(pos' = pos /\ (raw' # raw \/ statestack' # statestack)) =>
             /\ statestack = <<"root">>
             /\ statestack' = <<"root", "base">>
             /\ raw' = raw]_vars
    /\ [][(raw' # raw \/ statestack' # statestack) =>
             (pos' > pos \/ statestack = <<"root">>)]_vars

\* the default transition taken after a shebang line, at an offset that is
\* not the start of the input, then a stay on whitespace and a push
C14_Witness ==
    /\ Len(raw) >= 3
    /\ raw[1].token = "Comment.Preproc"
    /\ raw[2].token = "Whitespace"
    /\ statestack = <<"root", "base", "varname">>

\* the example of C15, a.b.c
ABC == <<"a", ".", "b", ".", "c">>

\* the scanner stands in the variable-name mode
InVarname == Pulling /\ statestack[Len(statestack)] = "varname"

\* the scanner stands at an identifier whose next character after the
\* whitespace and comments that follow it is in next
NameBeforeOneOf(next) ==
    /\ _name(text, pos) # NoMatch
    /\ At(text, SkipWs(text, pos + _name(text, pos))) \in next

\* the scan of a.b.c stays in the variable-name mode from the first dot to
\* the last name, and a name followed by "." or ":" is a property that
\* keeps the mode
ChainStays ==
    /\ []((text = ABC /\ 1 <= pos /\ pos <= 4) =>
             statestack = <<"root", "base", "varname">>)
    /\ []((text = ABC /\ done) =>
            /\ raw = << Token(0, "Name.Variable", <<"a">>),
                        Token(1, "Punctuation", <<".">>),
                        Token(2, "Name.Property", <<"b">>),
                        Token(3, "Punctuation", <<".">>),
                        Token(4, "Name.Property", <<"c">>) >>
            /\ statestack = <<"root", "base">>)
    /\ [][(InVarname /\ NameBeforeOneOf({".", ":"})) =>
            /\ raw' = Append(raw, Token(pos, "Name.Property",
                                        Slice(text, pos, pos + _name(text, pos))))
            /\ statestack' = statestack]_vars

\* the step pops the variable-name mode with a name that ends the chain, a
\* plain property or a function name in call position
PopsAtLastName ==
    /\ ~NameBeforeOneOf({".", ":"})
    /\ raw' = Append(raw, Token(pos,
                                IF NameBeforeOneOf({"("}) THEN "Name.Function"
                                ELSE "Name.Property",
                                Slice(text, pos, pos + _name(text, pos))))

\* the step pops the variable-name mode with the operator ..
PopsAtConcat == raw' = Append(raw, Token(pos, "Operator", <<".", ".">>))

\* C15 as claimed: the variable-name mode is popped only by the name that
\* ends the chain.
C15_Original ==
    /\ ChainStays
    /\ [][(InVarname /\ statestack' # statestack) =>
             /\ statestack' = <<"root", "base">>
             /\ PopsAtLastName]_vars

\* C15: in the variable-name mode an identifier followed by "." or ":" is
\* yielded as a property and the mode stays, so a.b.c is scanned inside the
\* mode; the mode is popped only by the name that ends the chain (a plain
\* property, or a function name before "(") or by the operator "..".
C15_Chain ==
    /\ ChainStays
    /\ [][(InVarname /\ statestack' # statestack) =>
             /\ statestack' = <<"root", "base">>
             /\ PopsAtLastName \/ PopsAtConcat]_vars

\* the variable-name mode popped by the operator .. after a property
C15_Witness ==
    /\ Len(raw) >= 4
    /\ raw[Len(raw)].token = "Operator"
    /\ raw[Len(raw)].value = <<".", ".">>
    /\ raw[Len(raw) - 1].token = "Name.Property"
    /\ statestack = <<"root", "base">>

\* the scanner stands at an identifier in the mode state
AtNameIn(state) ==
    /\ Pulling
    /\ statestack[Len(statestack)] = state
    /\ _name(text, pos) # NoMatch

\* the scanner yields the identifier at its offset as a label name
YieldsLabel ==
    raw' = Append(raw, Token(pos, "Name.Label", Slice(text, pos, pos + _name(text, pos))))

\* C16 as claimed: in the goto mode and in the label mode an identifier is
\* yielded as a label name and the mode is popped.
C16_Original ==
    /\ [][AtNameIn("goto") => (YieldsLabel /\ statestack' = <<"root", "base">>)]_vars
    /\ [][AtNameIn("label") => (YieldsLabel /\ statestack' = <<"root", "base">>)]_vars

\* C16: in the goto mode an identifier is yielded as a label name and the
\* mode is popped; in the label mode an identifier is yielded as a label
\* name and the mode stays, and the mode is popped by the closing "::",
\* yielded as punctuation; nothing else pops either mode.
C16_Labels ==
    /\ [][AtNameIn("goto") => (YieldsLabel /\ statestack' = <<"root", "base">>)]_vars
    /\ [][AtNameIn("label") => (YieldsLabel /\ statestack' = statestack)]_vars
    /\ [][(Pulling /\ statestack[Len(statestack)] = "label"
              /\ StartsWith(text, pos, <<":", ":">>)) =>
             /\ raw' = Append(raw, Token(pos, "Punctuation", <<":", ":">>))
             /\ statestack' = <<"root", "base">>]_vars
    /\ [][(Pulling /\ statestack[Len(statestack)] = "goto" /\ statestack' # statestack) =>
             AtNameIn("goto")]_vars
    /\ [][(Pulling /\ statestack[Len(statestack)] = "label" /\ statestack' # statestack) =>
             StartsWith(text, pos, <<":", ":">>)]_vars

\* a label between its two "::": the name kept the label mode, the closing
\* "::" popped it
C16_Witness ==
    /\ Len(raw) >= 3
    /\ raw[1] = Token(0, "Punctuation", <<":", ":">>)
    /\ raw[Len(raw) - 1].token = "Name.Label"
    /\ raw[Len(raw)].token = "Punctuation"
    /\ raw[Len(raw)].value = <<":", ":">>
    /\ statestack = <<"root", "base">>

\* the scanner stands, inside a quoted string, at a backslash that starts no
\* recognized escape sequence
AtStrayBackslash ==
    /\ InString
    /\ At(text, pos) = "\\"
    /\ Escape(text, pos) = NoMatch

\* the token type of the content of the string the scanner is in
ContentKind ==
    IF statestack[Len(statestack)] = "stringescape_sqs" THEN "String.Single"
    ELSE "String.Double"

\* C17 as claimed: a backslash that starts no recognized escape sequence is
\* yielded as content of the string, not as an Error token.
C17_Original ==
    [][AtStrayBackslash =>
          /\ Len(raw') = Len(raw) + 1
          /\ raw'[Len(raw')].index = pos
          /\ raw'[Len(raw')].token = ContentKind]_vars

\* C17: inside a quoted string a backslash that starts no recognized escape
\* sequence is yielded as an Error token of that one character, the string
\* stays open, and the characters after it go on as content of the string:
\* a run of characters without backslash and closing quote is one content
\* token of the string.
C17_Backslash ==
    /\ [][AtStrayBackslash =>
             /\ raw' = Append(raw, Token(pos, "Error", <<"\\">>))
             /\ pos' = pos + 1
             /\ statestack' = statestack]_vars
    /\ [][(InString /\ pos < Len(text)
              /\ At(text, pos) \notin {"\\", "'", "\""}) =>
             /\ Len(raw') = Len(raw) + 1
             /\ raw'[Len(raw')].index = pos
             /\ raw'[Len(raw')].token = ContentKind
             /\ statestack' = statestack]_vars

\* an open string with an Error token for a backslash before q, the q
\* yielded as content after it
C17_Witness ==
    /\ statestack[Len(statestack)] \in {"stringescape_sqs", "stringescape_dqs"}
    /\ \E k \in DOMAIN raw :
          /\ k + 1 = Len(raw)
          /\ raw[k].token = "Error"
          /\ raw[k].value = <<"\\">>
          /\ raw[k + 1].token = ContentKind
          /\ raw[k + 1].value = <<"q">>

\* the scanner yields the identifier at its offset with the token type kind
YieldsName(kind) ==
    raw' = Append(raw, Token(pos, kind, Slice(text, pos, pos + _name(text, pos))))

\* C18: in the function-name mode an identifier followed by "." or ":" is
\* yielded as a class name and the mode stays; an identifier that is not
\* (the last of the chain) is yielded as the function name and pops the
\* mode; a "(" met in the mode, as after the keyword of an anonymous
\* function, is yielded as punctuation and pops the mode, no name consumed;
\* after each pop the stack is the base mode above the root mode.
C18_FunctionName ==
    /\ [][(AtNameIn("funcname") /\ NameBeforeOneOf({".", ":"})) =>
             (YieldsName("Name.Class") /\ statestack' = statestack)]_vars
    /\ [][(AtNameIn("funcname") /\ ~NameBeforeOneOf({".", ":"})) =>
             (YieldsName("Name.Function") /\ statestack' = <<"root", "base">>)]_vars
    /\ [][(Pulling /\ statestack[Len(statestack)] = "funcname" /\ At(text, pos) = "(") =>
             /\ raw' = Append(raw, Token(pos, "Punctuation", <<"(">>))
             /\ statestack' = <<"root", "base">>]_vars
    /\ [][(Pulling /\ statestack[Len(statestack)] = "funcname"
              /\ statestack' # statestack) =>
             statestack' = <<"root", "base">>]_vars

\* a long bracket of level n opens at offset p
IsBracketOpener(t, p, n) ==
    /\ At(t, p) = "["
    /\ \A i \in 1..n : At(t, p + i) = "="
    /\ At(t, p + n + 1) = "["

\* a long bracket opens at offset p and no closing bracket of its level
\* follows
OpenBracketAt(t, p) ==
    \E n \in 0..Len(t) :
       /\ IsBracketOpener(t, p, n)
       /\ \A q \in (p + n + 2)..Len(t) : ~IsCloser(t, q, n)

\* the scanner stands, in a mode with the rules of ws, at a long comment
\* that is not closed
AtOpenComment ==
    /\ Pulling
    /\ statestack[Len(statestack)] \in WsModes
    /\ StartsWith(text, pos, <<"-", "-">>)
    /\ OpenBracketAt(text, pos + 2)

\* the scanner stands, in the base mode, at a long string that is not closed
AtOpenString ==
    /\ Pulling
    /\ statestack[Len(statestack)] = "base"
    /\ OpenBracketAt(text, pos)

\* the scanner stands, in the base mode, at a quote character
AtQuote ==
    /\ Pulling
    /\ statestack[Len(statestack)] = "base"
    /\ At(text, pos) \in {"'", "\""}

\* the scan goes on to the end of the input whatever the stack is: a step
\* can be taken until the stream has ended, and it ends at the end of the
\* input
EndsNormally ==
    [](/\ ~raised
       /\ done \/ CanStep
       /\ done => pos = Len(text))

\* C19 as claimed: the rule of the delimited construct does not match and
\* the construct left open is skipped character by character as Error
\* tokens; the scan ends normally, the stack need not be back at root.
C19_Original ==
    /\ [][AtOpenComment =>
             (_comment_multiline(text, pos) = NoMatch /\ SkipsOneCharacter)]_vars
    /\ [][AtOpenString =>
             (LongBracket(text, pos) = NoMatch /\ SkipsOneCharacter)]_vars
    /\ [][(AtQuote /\ \A q \in (pos + 1)..Len(text) : At(text, q) # At(text, pos))
             => SkipsOneCharacter]_vars
    /\ EndsNormally

\* C19: a long comment or long string left open is not matched by the rule
\* of the delimited construct and falls to simpler rules, without an Error
\* token: the comment is yielded as a single-line comment up to the end of
\* its line, the opening bracket of the string as punctuation; a quote
\* always opens its string mode, and the content of a string left open is
\* yielded as string content up to the end of the input; the scan ends
\* normally at the end of the input, whatever the stack is.
C19_Unterminated ==
    /\ [][AtOpenComment =>
             /\ _comment_multiline(text, pos) = NoMatch
             /\ raw' = Append(raw, Token(pos, "Comment.Single",
                                         Slice(text, pos, pos + 2 + RunToEOL(text, pos + 2))))
             /\ statestack' = statestack]_vars
    /\ [][AtOpenString =>
             /\ LongBracket(text, pos) = NoMatch
             /\ Len(raw') = Len(raw) + 1
             /\ raw'[Len(raw')].index = pos
             /\ raw'[Len(raw')].token = "Punctuation"
             /\ raw'[Len(raw')].value[1] = "["
             /\ statestack' = statestack]_vars
    /\ [][AtQuote =>
             /\ raw' = Append(raw, Token(pos, IF At(text, pos) = "'" THEN "String.Single"
                                              ELSE "String.Double", << text[pos + 1] >>))
             /\ statestack' = Append(statestack, IF At(text, pos) = "'"
                                                 THEN "stringescape_sqs"
                                                 ELSE "stringescape_dqs")]_vars
    /\ [][(InString /\ pos + 1 = Len(text) /\ At(text, pos) \notin {"\\", "'", "\""})
             => (/\ raw' = Append(raw, Token(pos, ContentKind, << text[pos + 1] >>))
                 /\ statestack' = statestack)]_vars
    /\ EndsNormally

\* a finished scan of a long comment left open, yielded as a single-line
\* comment, and of a quoted string left open, its mode still on the stack
C19_Witness ==
    /\ done
    /\ Len(statestack) = 3
    /\ Len(raw) >= 2
    /\ raw[1].token = "Comment.Single"
    /\ OpenBracketAt(text, 2)
    /\ raw[Len(raw)].token \in {"String.Single", "String.Double"}
    /\ \A k \in DOMAIN raw : raw[k].token # "Error"

\* the modes the base mode pushes
PushedModes ==
    {"varname", "funcname", "goto", "label", "stringescape_sqs", "stringescape_dqs"}

\* C20: the stack is [root], [root, base] or [root, base, m] with m the
\* variable-name, function-name, goto, label or a combined string mode,
\* never deeper than three; once the base mode is pushed it stays second on
\* the stack, so it is pushed once and never popped; while root is on top
\* nothing but shebang tokens has been yielded and the base mode has not
\* been pushed; a shebang token starts at offset 0 only.
C20_StackShape ==
    /\ [](/\ Len(statestack) <= 3
          /\ statestack \in {<<"root">>, <<"root", "base">>}
                \cup {<<"root", "base", m>> : m \in PushedModes})
    /\ [][statestack # <<"root">> => SubSeq(statestack', 1, 2) = <<"root", "base">>]_vars
    /\ [](statestack = <<"root">> =>
             /\ Len(raw) <= 1
             /\ \A k \in DOMAIN raw : raw[k].token = "Comment.Preproc"
             /\ IF raw = << >> THEN pos = 0 ELSE pos = End(raw[1]))
    /\ [](\A k \in DOMAIN raw : raw[k].token = "Comment.Preproc" => raw[k].index = 0)
    /\ [](\A k \in DOMAIN out : out[k].token = "Comment.Preproc" => out[k].index = 0)

\* after a shebang line and a second #! on the next line, not a shebang
\* token, the stack three deep
C20_Witness ==
    /\ Len(raw) >= 5
    /\ raw[1].token = "Comment.Preproc"
    /\ raw[3] = Token(raw[3].index, "Operator", <<"#">>)
    /\ raw[4] = Token(raw[3].index + 1, "Error", <<"!">>)
    /\ Len(statestack) = 3

====
